---- MODULE Spec2Model ----
(***************************************************************************)
(* A model of country_image_downloader.py: the URL normalizer and filter,  *)
(* the four extraction strategies and the JSON walk, the file name         *)
(* sanitizer, the downloader/verifier, the packager, the per-country       *)
(* orchestrator (download_images_for_country) and the loop of main.        *)
(*                                                                         *)
(* Spec is main over a list of entities and SpecPair over two of them,     *)
(* SpecEntity one call of download_images_for_country, SpecFilter and      *)
(* SpecDownload one stage of it; SpecNormalize, SpecWalk, SpecSearch and   *)
(* SpecSanitize call one helper on its own, on any argument of a bounded   *)
(* set.                                                                    *)
(*                                                                         *)
(* Strings are sequences of chunks.  A chunk is a piece of text that the   *)
(* code never looks inside: one character ("=", "w", "5", "/") or a fixed  *)
(* substring the code tests as a whole ("googleusercontent.com", ".jpg").  *)
(* Python's `sub in s` is Contains, s.endswith is EndsWith, s.split(c)[0]  *)
(* is SplitFirst, and re.search(r"=w(\d+)", s) is DirectiveMatch.          *)
(***************************************************************************)
EXTENDS Integers, Sequences, FiniteSets, TLC

(***************************************************************************)
(* Bounds of the model                                                     *)
(***************************************************************************)
\* largest number of URLs in an input set of the filter specification
MaxUrls == 3
\* largest value of --max-images that is explored (0 = no limit)
MaxImagesOpt == 2
\* largest number of URLs in a batch of the downloader specification
MaxBatch == 2
\* largest number of lines (entities) of the country list
MaxCountries == 2
\* longest text after the host of a URL given to the normalizer on its own
MaxTail == 5
\* deepest nesting of a JSON value given to the walk on its own
MaxDepth == 4
\* largest number of plain thumbnails ahead of the last two of a result page
MaxPad == 10
\* longest run of letters in the middle of a name given to the sanitizer
MaxFill == 50

(***************************************************************************)
(* Program constants                                                       *)
(***************************************************************************)
\* minimum width and height of an image, in the filter and in the verifier
MinDimension == 100
\* longest sanitized name that is not cut
MaxNameLen == 50
\* number of characters kept of a longer name, before the "..."
CutNameLen == 47
\* number of thumbnails the search-result strategy clicks
MaxClicks == 10

(***************************************************************************)
(* Strings                                                                 *)
(***************************************************************************)
Digits == {"0", "1", "2", "3", "4", "5", "6", "7", "8", "9"}

DigitVal(c) ==
    CASE c = "0" -> 0 [] c = "1" -> 1 [] c = "2" -> 2 [] c = "3" -> 3
      [] c = "4" -> 4 [] c = "5" -> 5 [] c = "6" -> 6 [] c = "7" -> 7
      [] c = "8" -> 8 [] c = "9" -> 9

Min(a, b) == IF a <= b THEN a ELSE b

\* `sub in s`
Contains(s, sub) ==
    \E k \in 1..(Len(s) - Len(sub) + 1) : SubSeq(s, k, k + Len(sub) - 1) = sub

\* s.endswith(suf)
EndsWith(s, suf) ==
    /\ Len(suf) <= Len(s)
    /\ SubSeq(s, Len(s) - Len(suf) + 1, Len(s)) = suf

\* str.lower(), on the chunks whose case the code's tests depend on
LowerChunk(c) ==
    CASE c = ".JPG" -> ".jpg" [] c = ".PNG" -> ".png" [] OTHER -> c

Lower(s) == [k \in 1..Len(s) |-> LowerChunk(s[k])]

\* s.split(sep)[0]: the text before the first sep, all of s when there is none
SplitFirst(s, sep) ==
    IF \E k \in 1..Len(s) : s[k] = sep
    THEN LET first == CHOOSE k \in 1..Len(s) :
                         /\ s[k] = sep
                         /\ \A j \in 1..(k - 1) : s[j] # sep
         IN  SubSeq(s, 1, first - 1)
    ELSE s

\* the end of the longest run of digits of s that starts at position k
RECURSIVE DigitRunEnd(_, _)
DigitRunEnd(s, k) ==
    IF k + 1 <= Len(s) /\ s[k + 1] \in Digits THEN DigitRunEnd(s, k + 1) ELSE k

\* int(text) of a run of digits
RECURSIVE IntOf(_)
IntOf(ds) ==
    IF ds = <<>> THEN 0
    ELSE 10 * IntOf(SubSeq(ds, 1, Len(ds) - 1)) + DigitVal(ds[Len(ds)])

\* re.search(r"=<letter>(\d+)", s): the positions where the pattern matches
DirectiveStarts(s, letter) ==
    {k \in 1..(Len(s) - 2) :
        s[k] = "=" /\ s[k + 1] = letter /\ s[k + 2] \in Digits}

\* int(match.group(1)) of the leftmost match; -1 stands for "no match" (None)
DirectiveMatch(s, letter) ==
    IF DirectiveStarts(s, letter) = {} THEN -1
    ELSE LET k == CHOOSE a \in DirectiveStarts(s, letter) :
                      \A b \in DirectiveStarts(s, letter) : a <= b
         IN  IntOf(SubSeq(s, k + 2, DigitRunEnd(s, k + 2)))

(***************************************************************************)
(* URL normalizer and filter                                               *)
(***************************************************************************)
LargeSize == <<"=", "w", "2", "0", "4", "8", "-", "h", "2", "0", "4", "8">>

\* the normalizer that keeps the whole URL as the base
get_high_res_image_url_Append(url) ==
    IF /\ Contains(url, <<"googleusercontent.com">>)
       /\ \/ Contains(url, <<"=", "w">>)
          \/ Contains(url, <<"=", "s">>)
          \/ Contains(url, <<"=", "h">>)
    THEN url \o LargeSize
    ELSE url

get_high_res_image_url(url) ==
    IF /\ Contains(url, <<"googleusercontent.com">>)
       /\ \/ Contains(url, <<"=", "w">>)
          \/ Contains(url, <<"=", "s">>)
          \/ Contains(url, <<"=", "h">>)
    THEN SplitFirst(url, "=") \o LargeSize
    ELSE url

ImageExtensions == {".jpg", ".jpeg", ".png", ".webp", ".gif"}

\* lines 586-598: the URL is skipped as "very small"
FilterSkipsSmall(url) ==
    /\ Contains(url, <<"=", "w">>)
    /\ Contains(url, <<"=", "h">>)
    /\ DirectiveMatch(url, "w") # -1
    /\ DirectiveMatch(url, "h") # -1
    /\ \/ DirectiveMatch(url, "w") < MinDimension
       \/ DirectiveMatch(url, "h") < MinDimension

\* lines 601-608: Google icons and thumbnails
FilterDenylisted(url) ==
    \/ Contains(url, <<"maps.", "googleapis.com">>)
    \/ Contains(url, <<"maps.", "gstatic.com">>)
    \/ Contains(url, <<"googleusercontent.com", "/gadgets">>)
    \/ Contains(url, <<"google.com", "/images">>)
    \/ Contains(url, <<"gstatic.com", "/images">>)

\* line 611: neither an image extension nor a size directive
FilterNonImage(url) ==
    /\ ~ \E ext \in ImageExtensions : EndsWith(Lower(url), <<ext>>)
    /\ ~ Contains(url, <<"=", "w">>)
    /\ ~ Contains(url, <<"=", "h">>)

filter_image_urls(in) ==
    {url \in in :
        ~ FilterSkipsSmall(url) /\ ~ FilterDenylisted(url) /\ ~ FilterNonImage(url)}

(***************************************************************************)
(* File names                                                              *)
(***************************************************************************)
IllegalChars == {"\\", "/", "*", "?", ":", "\"", "<", ">", "|"}
Whitespace == {" ", "\t"}

\* re.sub(r'[\\/*?:"<>|]', "_", name)
ReplaceIllegal(s) ==
    [k \in 1..Len(s) |-> IF s[k] \in IllegalChars THEN "_" ELSE s[k]]

\* re.sub(r'\s+', " ", s): every run of whitespace becomes one space
RECURSIVE CollapseWhitespace(_)
CollapseWhitespace(s) ==
    IF s = <<>> THEN <<>>
    ELSE IF Head(s) \in Whitespace
         THEN IF Len(s) >= 2 /\ s[2] \in Whitespace
              THEN CollapseWhitespace(Tail(s))
              ELSE <<" ">> \o CollapseWhitespace(Tail(s))
         ELSE <<Head(s)>> \o CollapseWhitespace(Tail(s))

\* str.isspace(): not empty and whitespace only
IsSpace(s) == s # <<>> /\ \A k \in 1..Len(s) : s[k] \in Whitespace

\* str.strip()
RECURSIVE Strip(_)
Strip(s) ==
    IF s = <<>> THEN <<>>
    ELSE IF Head(s) \in Whitespace THEN Strip(Tail(s))
    ELSE IF s[Len(s)] \in Whitespace THEN Strip(SubSeq(s, 1, Len(s) - 1))
    ELSE s

Placeholder ==
    <<"u", "n", "n", "a", "m", "e", "d", "_", "c", "o", "u", "n", "t", "r", "y">>

\* the sanitizer that keeps MaxNameLen characters of a long name
sanitize_filename_LongCut(name) ==
    LET replaced  == ReplaceIllegal(name)
        collapsed == CollapseWhitespace(replaced)
        cut       == IF Len(collapsed) > MaxNameLen
                     THEN SubSeq(collapsed, 1, MaxNameLen) \o <<".", ".", ".">>
                     ELSE collapsed
        filled    == IF cut = <<>> \/ IsSpace(cut) THEN Placeholder ELSE cut
    IN  Strip(filled)

sanitize_filename(name) ==
    LET replaced  == ReplaceIllegal(name)
        collapsed == CollapseWhitespace(replaced)
        cut       == IF Len(collapsed) > MaxNameLen
                     THEN SubSeq(collapsed, 1, CutNameLen) \o <<".", ".", ".">>
                     ELSE collapsed
        filled    == IF cut = <<>> \/ IsSpace(cut) THEN Placeholder ELSE cut
    IN  Strip(filled)

\* f"{country_id}_{self._sanitize_filename(country_name)}": the name of the
\* working directory (line 169) and the stem of every image file (line 638)
DirName(country_id, country_name) ==
    country_id \o <<"_">> \o sanitize_filename(country_name)

\* f"{country_id}_{country_name}_images.zip" (lines 223, 707): not sanitized
ZipName(country_id, country_name) ==
    country_id \o <<"_">> \o country_name \o <<"_images.zip">>

\* a path below the base directory names a file that can be created only if
\* every directory on the way exists: with a "/" in the name, the part before
\* the last "/" must be an existing directory
RECURSIVE LastSlash(_)
LastSlash(s) ==
    IF s = <<>> THEN 0
    ELSE IF s[Len(s)] = "/" THEN Len(s)
    ELSE LastSlash(SubSeq(s, 1, Len(s) - 1))

ParentExists(name, existing) ==
    \/ LastSlash(name) = 0
    \/ SubSeq(name, 1, LastSlash(name) - 1) \in existing

\* output_dir / f"{stem}_{i+1:03d}{ext}": an image file of a working directory
ImagePath(dir, n, ext) == [dir |-> dir, n |-> n, ext |-> ext]

(***************************************************************************)
(* Downloader and verifier: one URL                                        *)
(***************************************************************************)
\* What the collaborators answer for one URL:
\*   get     requests.get and raise_for_status: "ok", or "error" (transport
\*           error, timeout, non-2xx status)
\*   ctype   the Content-Type: "image" (starts with image/) or "other"
\*   open    open(output_path, "wb"): "ok" or "error"
\*   write   writing the body: "ok" or "error" (the stream breaks)
\*   format  Image.open: "fail" (no image), "none" (img.format is None), or
\*           the decoded format in lower case
\*   save    img.save under the new extension: "ok", "error_clean" (nothing
\*           left), "error_partial" (a partial file is left)
\*   remove  os.remove: "ok" or "error"
\*   w, h    img.size
Answer ==
    [get |-> "ok", ctype |-> "image", open |-> "ok", write |-> "ok",
     format |-> "jpeg", save |-> "ok", remove |-> "ok", w |-> 200, h |-> 200]

NoPath == [dir |-> <<>>, n |-> 0, ext |-> ""]

\* img_format = img.format.lower() if img.format else "jpeg"
ImgFormat(a) == IF a.format = "none" THEN "jpeg" ELSE a.format

\* f".{img_format.lower()}" (line 664)
FormatExt(fmt) ==
    CASE fmt = "png" -> ".png" [] fmt = "gif" -> ".gif" [] fmt = "webp" -> ".webp"
      [] fmt = "bmp" -> ".bmp" [] fmt = "mpo" -> ".mpo" [] fmt = "jpeg" -> ".jpeg"

\* the iteration without the size check of lines 671-675
DownloadOne_NoSizeCheck(dir, n, a, files) ==
    LET output_path     == ImagePath(dir, n, ".jpg")
        new_output_path == ImagePath(dir, n, FormatExt(ImgFormat(a)))
        skip(f)         == [files |-> f, path |-> NoPath]
        handler(f, p)   == IF p \in f /\ a.remove = "ok"
                           THEN skip(f \ {p}) ELSE skip(f)
        written         == files \cup {output_path}
    IN  IF a.get # "ok" \/ a.ctype # "image" \/ a.open # "ok" THEN skip(files)
        ELSE IF a.write # "ok" THEN skip(written)
        ELSE IF a.format = "fail" THEN handler(written, output_path)
        ELSE IF ImgFormat(a) # "jpeg"
             THEN IF a.save = "error_clean"
                       THEN handler(written, output_path)
                  ELSE IF a.save = "error_partial" \/ a.remove # "ok"
                       THEN handler(written \cup {new_output_path}, output_path)
                  ELSE [files |-> (written \cup {new_output_path}) \ {output_path},
                        path  |-> new_output_path]
        ELSE [files |-> written, path |-> output_path]

\* lines 636-687, one iteration of the loop: the files afterwards and the path
\* appended to downloaded_images (NoPath: nothing appended)
DownloadOne(dir, n, a, files) ==
    LET output_path     == ImagePath(dir, n, ".jpg")
        new_output_path == ImagePath(dir, n, FormatExt(ImgFormat(a)))
        skip(f)         == [files |-> f, path |-> NoPath]
        \* the inner handler (676-680): remove output_path if it exists; an
        \* error of os.remove goes to the outer handler (686), which only logs
        handler(f, p)   == IF p \in f /\ a.remove = "ok"
                           THEN skip(f \ {p}) ELSE skip(f)
        \* lines 671-675, and 683
        sized(f, p)     == IF a.w < MinDimension \/ a.h < MinDimension
                           THEN IF a.remove = "ok"
                                THEN skip(f \ {p}) ELSE handler(f, p)
                           ELSE [files |-> f, path |-> p]
        written         == files \cup {output_path}
    IN  IF a.get # "ok" THEN skip(files)
        ELSE IF a.ctype # "image" THEN skip(files)
        ELSE IF a.open # "ok" THEN skip(files)
        ELSE IF a.write # "ok" THEN skip(written)
        ELSE IF a.format = "fail" THEN handler(written, output_path)
        ELSE IF ImgFormat(a) # "jpeg"
             THEN IF a.save = "error_clean"
                       THEN handler(written, output_path)
                  ELSE IF a.save = "error_partial"
                       THEN handler(written \cup {new_output_path}, output_path)
                  ELSE IF a.remove # "ok"
                       THEN handler(written \cup {new_output_path}, output_path)
                  ELSE sized((written \cup {new_output_path}) \ {output_path},
                             new_output_path)
        ELSE sized(written, output_path)

\* the paths the iteration opens for writing
PathsWritten(dir, n, a) ==
    IF a.get # "ok" \/ a.ctype # "image" \/ a.open # "ok" THEN {}
    ELSE IF a.write = "ok" /\ a.format # "fail" /\ ImgFormat(a) # "jpeg"
              /\ a.save # "error_clean"
         THEN {ImagePath(dir, n, ".jpg"), ImagePath(dir, n, FormatExt(ImgFormat(a)))}
    ELSE {ImagePath(dir, n, ".jpg")}

(***************************************************************************)
(* Packager                                                                *)
(***************************************************************************)
\* lines 712-714: the names the archive gets: every file of the directory
\* with an image extension
ZipMembers(dir, files) ==
    {p \in files : p.dir = dir /\ p.ext \in ImageExtensions}

(***************************************************************************)
(* Extraction strategies                                                   *)
(***************************************************************************)
\* A loaded page, as the browser answers the queries of the four strategies:
\*   thumbs  the img.rg_i / img.Q4LuWd elements in document order, each
\*             src     its src attribute
\*             step    the step of its iteration of the click loop that
\*                     raises: "click", "query" (the viewer's images are not
\*                     found), "close" (the close button), or "ok" (none)
\*             viewer  the images of the viewer its click opens, each [src,
\*                     read]: read is "error" when get_attribute raises
\*             read    "error" when get_attribute("src") of the element
\*                     raises in the second loop, else "ok"
\*   imgs    every img element: [src, width, height] ("" = no attribute)
\*   ld      the JSON-LD blocks, each [ok, doc]: ok is FALSE when json.loads
\*           raises, doc is the parsed document, a JSON value
\*   frags   the JSON fragments of the page source with an "images" key
\*   markup  the bare https URLs of the page source
\*   broken  the strategies (1..4) whose first browser query raises
NoPage ==
    [thumbs |-> <<>>, imgs |-> {}, ld |-> <<>>, frags |-> <<>>,
     markup |-> {}, broken |-> {}]

Thumb(src, step, viewer, read) ==
    [src |-> src, step |-> step, viewer |-> viewer, read |-> read]

Large(src, read) == [src |-> src, read |-> read]

\* "http" in src
HasHttp(src) == \E k \in 1..Len(src) : src[k] \in {"http://", "https://"}

\* value.startswith("http")
StartsWithHttp(value) == value # <<>> /\ value[1] \in {"http://", "https://"}

\* lines 338 and 360
SearchResultKeeps(src) ==
    /\ src # <<>>
    /\ HasHttp(src)
    /\ ~ Contains(src, <<"data:image">>)
    /\ ~ Contains(src, <<"gstatic.com">>)
    /\ ~ Contains(src, <<"googleusercontent.com", "/gadgets">>)

\* lines 396 and 493
ContentDenylisted(src) ==
    \/ Contains(src, <<"maps.", "googleapis.com">>)
    \/ Contains(src, <<"maps.", "gstatic.com">>)
    \/ Contains(src, <<"googleusercontent.com", "/gadgets">>)

\* int(width) of an attribute: -1 stands for ValueError
AttrInt(text) ==
    IF text # <<>> /\ \A k \in 1..Len(text) : text[k] \in Digits
    THEN IntOf(text) ELSE -1

\* lines 400-407: the element is skipped as an icon
ContentTooSmall(img) ==
    /\ img.width # <<>> /\ img.height # <<>>
    /\ IF AttrInt(img.width) = -1 THEN FALSE
       ELSE IF AttrInt(img.width) < MinDimension THEN TRUE
       ELSE IF AttrInt(img.height) = -1 THEN FALSE
       ELSE AttrInt(img.height) < MinDimension

\* line 325: the elements the click loop takes
ClickedThumbs(p) == SubSeq(p.thumbs, 1, Min(MaxClicks, Len(p.thumbs)))

\* lines 327-351: what an iteration of the click loop reads in the viewer: the
\* sources before the first one whose read raises, nothing when the click or
\* the query raises
ViewerSources(e) ==
    IF e.step \in {"click", "query"} THEN {}
    ELSE LET bad == {k \in 1..Len(e.viewer) : e.viewer[k].read # "ok"}
         IN  {e.viewer[k].src :
                 k \in {n \in 1..Len(e.viewer) : \A b \in bad : n < b}}

\* the strategy with the handlers of the outer try block only: the first
\* failing element ends the pass
extract_images_from_search_results_Abort(p) ==
    IF 1 \in p.broken THEN {}
    ELSE LET clicked == ClickedThumbs(p)
             bad1    == {k \in 1..Len(clicked) :
                            \/ clicked[k].step # "ok"
                            \/ \E n \in 1..Len(clicked[k].viewer) :
                                  clicked[k].viewer[n].read # "ok"}
             bad2    == {k \in 1..Len(p.thumbs) : p.thumbs[k].read # "ok"}
             viewer  == UNION {ViewerSources(clicked[k]) :
                                  k \in {n \in 1..Len(clicked) :
                                            \A b \in bad1 : n <= b}}
             own     == IF bad1 # {} THEN {}
                        ELSE {p.thumbs[k].src :
                                k \in {n \in 1..Len(p.thumbs) :
                                          \A b \in bad2 : n < b}}
         IN  {get_high_res_image_url(src) :
                 src \in {x \in viewer \cup own : SearchResultKeeps(x)}}

extract_images_from_search_results(p) ==
    IF 1 \in p.broken THEN {}
    ELSE LET clicked == ClickedThumbs(p)
             \* lines 325-351
             viewer  == UNION {ViewerSources(clicked[k]) : k \in 1..Len(clicked)}
             \* lines 354-366
             own     == {p.thumbs[k].src :
                           k \in {n \in 1..Len(p.thumbs) : p.thumbs[n].read = "ok"}}
         IN  {get_high_res_image_url(src) :
                 src \in {x \in viewer \cup own : SearchResultKeeps(x)}}

\* the strategy without the normalizer of line 410
extract_images_from_page_content_Raw(p) ==
    IF 2 \in p.broken THEN {}
    ELSE {img.src :
            img \in {x \in p.imgs :
                        /\ x.src # <<>>
                        /\ ~ ContentDenylisted(x.src)
                        /\ ~ ContentTooSmall(x)}}

extract_images_from_page_content(p) ==
    IF 2 \in p.broken THEN {}
    ELSE {get_high_res_image_url(img.src) :
            img \in {x \in p.imgs :
                        /\ x.src # <<>>
                        /\ ~ ContentDenylisted(x.src)
                        /\ ~ ContentTooSmall(x)}}

RecognizedKeys ==
    {"image", "images", "photo", "photos", "thumbnail", "thumbnailUrl", "contentUrl"}

\* lines 520 and 528: the extensions the JSON walk looks for
WalkExtensions == {".jpg", ".jpeg", ".png", ".webp"}

WalkCollects(value) ==
    /\ StartsWithHttp(value)
    /\ \E ext \in WalkExtensions : Contains(Lower(value), <<ext>>)

\* A parsed JSON value: a string, a sequence of values, a mapping (a set of
\* [key, value], the keys distinct), or another scalar (number, true, null)
JStr(s)      == [t |-> "str", v |-> s]
JList(items) == [t |-> "list", v |-> items]
JDict(pairs) == [t |-> "dict", v |-> pairs]
JScalar      == [t |-> "scalar", v |-> <<>>]

\* lines 506-546: the walk over a parsed JSON value
RECURSIVE extract_images_from_json_object(_)
extract_images_from_json_object(json_data) ==
    LET collect(x) == IF WalkCollects(x.v) THEN {get_high_res_image_url(x.v)} ELSE {}
        \* lines 526-532: an element of a sequence under a recognized key
        item(x)    == IF x.t = "str" THEN collect(x)
                      ELSE IF x.t = "dict" THEN extract_images_from_json_object(x)
                      ELSE {}
        \* lines 518-535: the value of a recognized key
        value(x)   == IF x.t = "str" THEN collect(x)
                      ELSE IF x.t = "list"
                           THEN UNION {item(x.v[k]) : k \in 1..Len(x.v)}
                      ELSE IF x.t = "dict" THEN extract_images_from_json_object(x)
                      ELSE {}
    IN  IF json_data.t = "dict"
        THEN UNION {value(kv.value) :
                       kv \in {x \in json_data.v : x.key \in RecognizedKeys}}
               \* lines 538-540: every value that is a mapping or a sequence
               \cup UNION {extract_images_from_json_object(kv.value) :
                              kv \in {x \in json_data.v :
                                         x.value.t \in {"dict", "list"}}}
        ELSE IF json_data.t = "list"
             THEN UNION {extract_images_from_json_object(json_data.v[k]) :
                            k \in 1..Len(json_data.v)}
        ELSE {}

\* the documents of a sequence of texts, malformed ones skipped
JsonResults(texts) ==
    UNION {extract_images_from_json_object(texts[k].doc) :
              k \in {j \in 1..Len(texts) : texts[j].ok}}

extract_images_from_jsonld(p) ==
    IF 3 \in p.broken THEN {} ELSE JsonResults(p.ld)

\* re.findall(r'(https://[^"\']+\.(jpg|jpeg|png|webp))', page_source) on one
\* URL of the source: the match ends with the last extension it can end with,
\* and the alternative jpg is tried before jpeg; <<>> stands for "no match"
RegexExtensions == {".jpg", ".jpeg", ".png", ".webp"}

MarkupMatch(u) ==
    LET ends == {k \in 3..Len(u) : u[k] \in RegexExtensions}
    IN  IF u = <<>> \/ u[1] # "https://" \/ ends = {} THEN <<>>
        ELSE LET last == CHOOSE a \in ends : \A b \in ends : b <= a
             IN  SubSeq(u, 1, last - 1)
                    \o <<IF u[last] = ".jpeg" THEN ".jpg" ELSE u[last]>>

extract_images_from_embedded_json(p) ==
    IF 4 \in p.broken THEN {}
    ELSE JsonResults(p.frags)
           \cup {get_high_res_image_url(m) :
                   m \in {x \in {MarkupMatch(u) : u \in p.markup} :
                             x # <<>> /\ ~ ContentDenylisted(x)}}

(***************************************************************************)
(* Inputs                                                                  *)
(***************************************************************************)
UrlJpg       == <<"https://", "ex.com", "/a", ".jpg">>
UrlPngUpper  == <<"https://", "ex.com", "/b", ".PNG">>
UrlHtml      == <<"https://", "ex.com", "/page", ".html">>
UrlMapTile   == <<"https://", "maps.", "gstatic.com", "/t", ".png">>
\* a size directive in the form the normalizer emits, on another host
UrlPairSmall == <<"https://", "ex.com", "/c", "=", "w", "5", "0", "-", "h", "5", "0">>
UrlPairBig   == <<"https://", "ex.com", "/e", "=", "w", "6", "4", "0", "-", "h", "4", "8", "0">>
\* separate width and height tokens
UrlSepSmall  == <<"https://", "ex.com", "/d", "=", "w", "2", "0", "0", "&", "=", "h", "5", "0">>
UrlSepBig    == <<"https://", "ex.com", "/f", "=", "w", "2", "0", "0", "&", "=", "h", "3", "0", "0">>
UrlThumbW    == <<"https://", "lh3.", "googleusercontent.com", "/p", "=", "w", "5", "0", "-", "h", "5", "0">>
UrlThumbS    == <<"https://", "lh3.", "googleusercontent.com", "/p", "=", "s", "9", "0">>
UrlGif       == <<"https://", "ex.com", "/g", ".gif">>
\* an image extension inside the path of a page
UrlMid       == <<"https://", "ex.com", "/a", ".jpg", "/page", ".html">>
\* a relative reference
UrlRelative  == <<"/img", "/a", ".jpg">>

FilterUrls ==
    {UrlJpg, UrlPngUpper, UrlHtml, UrlMapTile, UrlPairSmall, UrlPairBig,
     UrlSepSmall, UrlSepBig, UrlThumbW, get_high_res_image_url(UrlThumbW)}

\* all sequences without repetition over the elements of S: the orders in
\* which a set can be iterated
RECURSIVE Orders(_)
Orders(S) ==
    IF S = {} THEN {<<>>}
    ELSE UNION {{<<x>> \o rest : rest \in Orders(S \ {x})} : x \in S}

SubsetsUpTo(S, n) == {T \in SUBSET S : Cardinality(T) <= n}

Range(f) == {f[k] : k \in DOMAIN f}

\* the entities
Wakanda  == [id |-> <<"1", "2">>, name |-> <<"W", "k">>]
\* a name with a path character: the archive name keeps it
Atlantis == [id |-> <<"0", "7">>, name |-> <<"A", "/", "B">>]
\* an id with a path character: the directory name keeps it
Oz       == [id |-> <<"x", "/", "y">>, name |-> <<"O", "z">>]

Entities == {Wakanda, Atlantis, Oz}

\* the id of Atlantis with a name that differs in a rewritten character
Atlantic == [id |-> <<"0", "7">>, name |-> <<"A", ":", "B">>]
\* two names of 51 characters that differ in the last one
Lemuria  == [id |-> <<"3">>, name |-> [k \in 1..MaxNameLen |-> "a"] \o <<"x">>]
Lemurya  == [id |-> <<"3">>, name |-> [k \in 1..MaxNameLen |-> "a"] \o <<"y">>]

\* the answers of the collaborators for one URL
Answers ==
    {Answer,
     [Answer EXCEPT !.get = "error"],
     [Answer EXCEPT !.ctype = "other"],
     [Answer EXCEPT !.open = "error"],
     [Answer EXCEPT !.write = "error"],
     [Answer EXCEPT !.format = "fail"],
     [Answer EXCEPT !.format = "fail", !.remove = "error"],
     [Answer EXCEPT !.format = "none"],
     [Answer EXCEPT !.format = "png"],
     [Answer EXCEPT !.format = "bmp"],
     [Answer EXCEPT !.format = "png", !.save = "error_clean"],
     [Answer EXCEPT !.format = "png", !.save = "error_partial"],
     [Answer EXCEPT !.format = "png", !.remove = "error"],
     [Answer EXCEPT !.w = 50],
     [Answer EXCEPT !.h = 50],
     [Answer EXCEPT !.format = "png", !.h = 50],
     [Answer EXCEPT !.w = 50, !.remove = "error"]}

(***************************************************************************)
(* State                                                                   *)
(***************************************************************************)
VARIABLES
    options,                \* the parsed command line: max_images, no_zip, zip_only
    countries,              \* main: the list of entities
    ci,                     \* main: how many entities the loop has taken
    total_images,           \* main: the running total
    mainpc,                 \* main: "loop", "done" or "exit" (sys.exit(1))
    pc,                     \* the place in download_images_for_country
    retval,                 \* its return value, at pc = "ret"
    page,                   \* the page the browser has loaded
    search_results_images,  \* download_images_for_country: the four results
    page_content_images,
    jsonld_images,
    embedded_json_images,
    image_urls,             \* the candidate set (lines 184-207)
    filtered,               \* image_urls after line 211
    urls,                   \* _download_images: the URLs in iteration order
    i,                      \* _download_images: URLs done
    downloaded_images,      \* _download_images: the paths returned
    rm,                     \* originals removed so far (line 229)
    dirs,                   \* the directories below the output directory
    fs,                     \* the image files of these directories
    zips,                   \* the archives: [name, members, open]
    fs_before,              \* history: fs when the entity was started
    written,                \* history: the paths the downloader opened for writing
    requested,              \* history: the URLs requests.get was called with
    passed,                 \* history: how many URLs passed every step
    returned,               \* history: the values returned to main
    verified,               \* history: len(downloaded_images) of every call
    arg,                    \* a helper called on its own: its argument
    result                  \* and the values it returned, call after call

mainVars  == <<options, countries, ci, mainpc>>
extracted == <<search_results_images, page_content_images, jsonld_images,
               embedded_json_images>>
frame     == <<page, extracted, image_urls, filtered, urls, i,
               downloaded_images, rm>>
world     == <<dirs, fs, zips>>
history   == <<fs_before, written, requested, passed>>
results   == <<total_images, returned, verified>>
call      == <<arg, result>>
vars      == <<mainVars, pc, retval, frame, world, history, results, call>>

\* the entity download_images_for_country is working on
Country == countries[ci]
OutputDir == DirName(Country.id, Country.name)

\* every step of a URL succeeded: the request, the content type, the write,
\* the decoding, for another format than JPEG the new file and the removal of
\* the provisional one, and the size check
Passed(a) ==
    /\ a.get = "ok" /\ a.ctype = "image" /\ a.open = "ok" /\ a.write = "ok"
    /\ a.format # "fail"
    /\ ImgFormat(a) # "jpeg" => (a.save = "ok" /\ a.remove = "ok")
    /\ a.w >= MinDimension /\ a.h >= MinDimension

(***************************************************************************)
(* main and download_images_for_country                                    *)
(***************************************************************************)
EmptyFrame ==
    /\ page' = NoPage
    /\ search_results_images' = {} /\ page_content_images' = {}
    /\ jsonld_images' = {} /\ embedded_json_images' = {}
    /\ image_urls' = {} /\ filtered' = {} /\ urls' = <<>> /\ i' = 0
    /\ downloaded_images' = <<>> /\ rm' = 0

\* main, lines 849-854, and lines 163-171: the next entity is taken and its
\* working directory made; mkdir is outside the try block, so its error ends
\* main through the handler of line 859
StartCountry ==
    /\ mainpc = "loop" /\ pc = "idle" /\ ci < Len(countries)
    /\ ci' = ci + 1
    /\ LET e == countries[ci + 1]
           d == DirName(e.id, e.name)
       IN  IF d \in dirs \/ ParentExists(d, dirs)
           THEN /\ dirs' = dirs \cup {d}
                /\ pc' = "navigate"
                /\ mainpc' = mainpc
           ELSE /\ dirs' = dirs
                /\ pc' = "idle"
                /\ mainpc' = "exit"
    /\ fs_before' = fs /\ written' = {} /\ requested' = <<>> /\ passed' = 0
    /\ UNCHANGED <<call, options, countries, retval, frame, fs, zips, results>>

\* lines 176-184: the page is loaded
Navigate(p) ==
    /\ pc = "navigate"
    /\ page' = p
    /\ image_urls' = {}
    /\ pc' = "extract1"
    /\ UNCHANGED <<call, mainVars, retval, extracted, filtered, urls, i,
                   downloaded_images, rm, world, history, results>>

\* line 176 raises: the handler of line 235 returns 0
NavigateFails ==
    /\ pc = "navigate"
    /\ pc' = "ret" /\ retval' = 0
    /\ UNCHANGED <<call, mainVars, frame, world, history, results>>

Extract1 ==
    /\ pc = "extract1"
    /\ search_results_images' = extract_images_from_search_results(page)
    /\ image_urls' = image_urls \cup search_results_images'
    /\ pc' = "extract2"
    /\ UNCHANGED <<call, mainVars, retval, page, page_content_images, jsonld_images,
                   embedded_json_images, filtered, urls, i, downloaded_images,
                   rm, world, history, results>>

Extract2 ==
    /\ pc = "extract2"
    /\ page_content_images' = extract_images_from_page_content(page)
    /\ image_urls' = image_urls \cup page_content_images'
    /\ pc' = "extract3"
    /\ UNCHANGED <<call, mainVars, retval, page, search_results_images, jsonld_images,
                   embedded_json_images, filtered, urls, i, downloaded_images,
                   rm, world, history, results>>

Extract3 ==
    /\ pc = "extract3"
    /\ jsonld_images' = extract_images_from_jsonld(page)
    /\ image_urls' = image_urls \cup jsonld_images'
    /\ pc' = "extract4"
    /\ UNCHANGED <<call, mainVars, retval, page, search_results_images,
                   page_content_images, embedded_json_images, filtered, urls, i,
                   downloaded_images, rm, world, history, results>>

\* the fourth strategy followed by the downloader, without lines 211-214
Extract4_SkipFilter ==
    /\ pc = "extract4"
    /\ embedded_json_images' = extract_images_from_embedded_json(page)
    /\ image_urls' = image_urls \cup embedded_json_images'
    /\ pc' = "download"
    /\ UNCHANGED <<call, mainVars, retval, page, search_results_images,
                   page_content_images, jsonld_images, filtered, urls, i,
                   downloaded_images, rm, world, history, results>>

Extract4 ==
    /\ pc = "extract4"
    /\ embedded_json_images' = extract_images_from_embedded_json(page)
    /\ image_urls' = image_urls \cup embedded_json_images'
    /\ pc' = "filter"
    /\ UNCHANGED <<call, mainVars, retval, page, search_results_images,
                   page_content_images, jsonld_images, filtered, urls, i,
                   downloaded_images, rm, world, history, results>>

\* the cut with a slice that is one too long
Limit_OneMore(order, max_images) ==
    IF max_images > 0 /\ Len(order) > max_images
    THEN SubSeq(order, 1, max_images + 1)
    ELSE order

\* list(image_urls)[:max_images] when the limit applies (line 214)
Limit(order, max_images) ==
    IF max_images > 0 /\ Len(order) > max_images
    THEN SubSeq(order, 1, max_images)
    ELSE order

\* lines 211-218: the candidates are filtered and cut, and the downloader is
\* called with them; the order is the one in which the set is iterated
FilterAndLimit ==
    /\ pc = "filter"
    /\ filtered' = filter_image_urls(image_urls)
    /\ \E order \in Orders(filter_image_urls(image_urls)) :
          urls' = Limit(order, options.max_images)
    /\ i' = 0
    /\ downloaded_images' = <<>>
    /\ pc' = "download"
    /\ UNCHANGED <<call, mainVars, retval, page, extracted, image_urls, rm, world,
                   history, results>>

\* lines 635-690: one URL of the batch
DownloadUrl(a) ==
    /\ pc = "download" /\ i < Len(urls)
    /\ LET r == DownloadOne(OutputDir, i + 1, a, fs)
       IN  /\ fs' = r.files
           /\ downloaded_images' =
                 IF r.path = NoPath THEN downloaded_images
                 ELSE Append(downloaded_images, r.path)
    /\ i' = i + 1
    /\ requested' = Append(requested, urls[i + 1])
    /\ written' = written \cup PathsWritten(OutputDir, i + 1, a)
    /\ passed' = IF Passed(a) THEN passed + 1 ELSE passed
    /\ UNCHANGED <<call, mainVars, pc, retval, page, extracted, image_urls, filtered,
                   urls, rm, dirs, zips, fs_before, results>>

\* the zip-only test outside the test of no_zip, and ahead of the archive
FinishDownloads_RemoveFirst ==
    /\ pc = "download" /\ i = Len(urls)
    /\ pc' = IF options.zip_only /\ downloaded_images # <<>> THEN "remove"
             ELSE IF options.no_zip THEN "finish" ELSE "zip_open"
    /\ UNCHANGED <<call, mainVars, retval, frame, world, history, results>>

\* lines 692-693 and 221: the batch is done
FinishDownloads ==
    /\ pc = "download" /\ i = Len(urls)
    /\ pc' = IF options.no_zip THEN "finish" ELSE "zip_open"
    /\ UNCHANGED <<call, mainVars, retval, frame, world, history, results>>

ZipPath == ZipName(Country.id, Country.name)

OtherZips == {z \in zips : z.name # ZipPath}

\* line 711: the archive is opened for writing, which empties it; with no
\* directory to hold it the open raises, and the handler of line 235 returns 0
ZipOpen ==
    /\ pc = "zip_open"
    /\ IF ParentExists(ZipPath, dirs)
       THEN /\ zips' = OtherZips
                         \cup {[name |-> ZipPath, members |-> {}, open |-> TRUE]}
            /\ pc' = "zip_write" /\ retval' = retval
       ELSE /\ zips' = zips
            /\ pc' = "ret" /\ retval' = 0
    /\ UNCHANGED <<call, mainVars, frame, dirs, fs, history, results>>

\* lines 712-716 and 224-227: every image file of the directory is added and
\* the archive closed
ZipWrite ==
    /\ pc = "zip_write"
    /\ zips' = OtherZips
                 \cup {[name |-> ZipPath, members |-> ZipMembers(OutputDir, fs),
                        open |-> FALSE]}
    /\ pc' = IF options.zip_only /\ downloaded_images # <<>>
             THEN "remove" ELSE "finish"
    /\ UNCHANGED <<call, mainVars, retval, frame, dirs, fs, history, results>>

\* a write to the archive raises: the with block closes the archive with the
\* files added so far, and the handler of line 235 returns 0
ZipWriteFails(added) ==
    /\ pc = "zip_write"
    /\ added \subseteq ZipMembers(OutputDir, fs)
    /\ added # ZipMembers(OutputDir, fs)
    /\ zips' = OtherZips
                 \cup {[name |-> ZipPath, members |-> added, open |-> FALSE]}
    /\ pc' = "ret" /\ retval' = 0
    /\ UNCHANGED <<call, mainVars, frame, dirs, fs, history, results>>

\* lines 229-230: one original is removed; an error of os.remove goes to the
\* handler of line 235, which returns 0
RemoveImage(ok) ==
    /\ pc = "remove" /\ rm < Len(downloaded_images)
    /\ IF ok /\ downloaded_images[rm + 1] \in fs
       THEN /\ fs' = fs \ {downloaded_images[rm + 1]}
            /\ rm' = rm + 1
            /\ pc' = IF rm + 1 = Len(downloaded_images) THEN "finish" ELSE "remove"
            /\ retval' = retval
       ELSE /\ fs' = fs /\ rm' = rm
            /\ pc' = "ret" /\ retval' = 0
    /\ UNCHANGED <<call, mainVars, page, extracted, image_urls, filtered, urls, i,
                   downloaded_images, dirs, zips, history, results>>

\* lines 232-233
Finish ==
    /\ pc = "finish"
    /\ pc' = "ret" /\ retval' = Len(downloaded_images)
    /\ UNCHANGED <<call, mainVars, frame, world, history, results>>

\* the return, and main, line 855
ReturnToMain ==
    /\ pc = "ret"
    /\ total_images' = total_images + retval
    /\ returned' = Append(returned, retval)
    /\ verified' = Append(verified, Len(downloaded_images))
    /\ EmptyFrame
    /\ pc' = "idle" /\ retval' = 0
    /\ UNCHANGED <<call, mainVars, world, history>>

\* main, line 857
MainDone ==
    /\ mainpc = "loop" /\ pc = "idle" /\ ci = Len(countries)
    /\ mainpc' = "done"
    /\ UNCHANGED <<call, options, countries, ci, pc, retval, frame, world, history,
                   results>>

(***************************************************************************)
(* Pages, command lines and specifications                                 *)
(***************************************************************************)
Img(src, width, height) == [src |-> src, width |-> width, height |-> height]

\* one picture found by all four strategies, its thumbnail in two raw forms
PageDup ==
    [thumbs |-> <<Thumb(UrlThumbW, "ok", <<Large(UrlJpg, "ok")>>, "ok")>>,
     imgs   |-> {Img(UrlThumbW, <<>>, <<>>), Img(UrlThumbS, <<"2", "0", "0">>, <<"a", "u", "t", "o">>)},
     ld     |-> <<[ok |-> TRUE, doc |-> JDict({[key |-> "image", value |-> JStr(UrlJpg)]})]>>,
     frags  |-> <<[ok |-> FALSE, doc |-> JScalar]>>,
     markup |-> {UrlJpg},
     broken |-> {}]

\* a small thumbnail of another host, an icon, a map tile and a link
PageSmall ==
    [thumbs |-> <<Thumb(UrlPairSmall, "click", <<>>, "ok")>>,
     imgs   |-> {Img(UrlPairSmall, <<>>, <<>>), Img(UrlJpg, <<"5", "0">>, <<"5", "0">>),
                 Img(UrlHtml, <<>>, <<>>)},
     ld     |-> <<>>,
     frags  |-> <<[ok |-> TRUE, doc |-> JDict({[key |-> "url", value |-> JStr(UrlPngUpper)]})]>>,
     markup |-> {UrlMapTile},
     broken |-> {}]

\* the page of PageDup with the browser failing in strategies 1 and 3
PageBroken == [PageDup EXCEPT !.broken = {1, 3}]

\* three pictures
PageMany ==
    [NoPage EXCEPT !.imgs = {Img(UrlJpg, <<>>, <<>>), Img(UrlPngUpper, <<>>, <<>>),
                             Img(UrlPairBig, <<>>, <<>>)}]

Pages == {NoPage, PageDup, PageSmall, PageBroken, PageMany}

\* the pages and answers of the runs over several entities
RunPages == {PageDup, PageSmall}

RunAnswers ==
    {Answer,
     [Answer EXCEPT !.get = "error"],
     [Answer EXCEPT !.write = "error"],
     [Answer EXCEPT !.format = "bmp"]}

OptionSets ==
    [max_images : 0..MaxImagesOpt, no_zip : BOOLEAN, zip_only : BOOLEAN]

\* the lists of distinct entities, in every order
CountryLists ==
    UNION {Orders(S) : S \in {T \in SUBSET Entities :
                                 Cardinality(T) \in 1..MaxCountries}}

\* files a former run left in the working directory of Wakanda
StaleFiles ==
    {ImagePath(DirName(Wakanda.id, Wakanda.name), 2, ".png")}

InitIdle ==
    /\ retval = 0
    /\ page = NoPage
    /\ search_results_images = {} /\ page_content_images = {}
    /\ jsonld_images = {} /\ embedded_json_images = {}
    /\ filtered = {} /\ i = 0
    /\ downloaded_images = <<>> /\ rm = 0
    /\ zips = {}
    /\ written = {} /\ requested = <<>> /\ passed = 0
    /\ total_images = 0 /\ returned = <<>> /\ verified = <<>>

\* no helper is called on its own
NoCall == arg = <<>> /\ result = <<>>

\* main after the downloader is constructed and the list read (lines 826-848)
Init ==
    /\ options \in OptionSets
    /\ countries \in CountryLists
    /\ ci = 0 /\ mainpc = "loop" /\ pc = "idle"
    /\ fs \in {{}, StaleFiles}
    /\ dirs = {p.dir : p \in fs}
    /\ fs_before = fs
    /\ image_urls = {} /\ urls = <<>>
    /\ InitIdle /\ NoCall

Next ==
    \/ StartCountry
    \/ \E p \in RunPages : Navigate(p)
    \/ NavigateFails
    \/ Extract1
    \/ Extract2
    \/ Extract3
    \/ Extract4
    \/ FilterAndLimit
    \/ \E a \in RunAnswers : DownloadUrl(a)
    \/ FinishDownloads
    \/ ZipOpen
    \/ ZipWrite
    \/ \E added \in SUBSET fs : ZipWriteFails(added)
    \/ \E ok \in BOOLEAN : RemoveImage(ok)
    \/ Finish
    \/ ReturnToMain
    \/ MainDone

Spec == Init /\ [][Next]_vars

\* one call of download_images_for_country, for any entity, command line and
\* page, with more answers of the collaborators
EntityAnswers ==
    RunAnswers
      \cup {[Answer EXCEPT !.format = "png"],
            [Answer EXCEPT !.format = "png", !.save = "error_partial"],
            [Answer EXCEPT !.h = 50]}

InitEntity ==
    /\ options \in OptionSets
    /\ countries \in {<<e>> : e \in Entities}
    /\ ci = 0 /\ mainpc = "loop" /\ pc = "idle"
    /\ fs \in {{}, StaleFiles}
    /\ dirs = {p.dir : p \in fs}
    /\ fs_before = fs
    /\ image_urls = {} /\ urls = <<>>
    /\ InitIdle /\ NoCall

NextEntity ==
    \/ StartCountry
    \/ \E p \in Pages : Navigate(p)
    \/ NavigateFails
    \/ Extract1
    \/ Extract2
    \/ Extract3
    \/ Extract4
    \/ FilterAndLimit
    \/ \E a \in EntityAnswers : DownloadUrl(a)
    \/ FinishDownloads
    \/ ZipOpen
    \/ ZipWrite
    \/ \E added \in SUBSET fs : ZipWriteFails(added)
    \/ \E ok \in BOOLEAN : RemoveImage(ok)
    \/ Finish
    \/ ReturnToMain
    \/ MainDone

SpecEntity == InitEntity /\ [][NextEntity]_vars

\* the filter stage alone (lines 211-218), for any candidate set
InitFilter ==
    /\ options \in [max_images : 0..MaxImagesOpt, no_zip : {FALSE}, zip_only : {FALSE}]
    /\ countries = <<Wakanda>>
    /\ ci = 1 /\ mainpc = "loop" /\ pc = "filter"
    /\ fs = {}
    /\ dirs = {DirName(Wakanda.id, Wakanda.name)}
    /\ fs_before = fs
    /\ image_urls \in SubsetsUpTo(FilterUrls, MaxUrls)
    /\ urls = <<>>
    /\ InitIdle /\ NoCall

NextFilter == FilterAndLimit

SpecFilter == InitFilter /\ [][NextFilter]_vars

\* the downloader alone (lines 631-693), for any batch of distinct URLs and
\* any answers, in a directory that is empty or holds a file of a former run
BatchUrls == {UrlJpg, UrlPngUpper, UrlPairBig}

InitDownload ==
    /\ options \in [max_images : {0}, no_zip : {FALSE}, zip_only : {FALSE}]
    /\ countries = <<Wakanda>>
    /\ ci = 1 /\ mainpc = "loop" /\ pc = "download"
    /\ fs \in {{}, StaleFiles}
    /\ dirs = {DirName(Wakanda.id, Wakanda.name)}
    /\ fs_before = fs
    /\ image_urls = {}
    /\ urls \in UNION {Orders(S) : S \in SubsetsUpTo(BatchUrls, MaxBatch)}
    /\ InitIdle /\ NoCall

NextDownload == \E a \in Answers : DownloadUrl(a)

SpecDownload == InitDownload /\ [][NextDownload]_vars

\* a helper called on its own: the state around the call
InitCall(place) ==
    /\ options = [max_images |-> 0, no_zip |-> FALSE, zip_only |-> FALSE]
    /\ countries = <<>>
    /\ ci = 0 /\ mainpc = "loop" /\ pc = place
    /\ fs = {} /\ dirs = {} /\ fs_before = {}
    /\ image_urls = {} /\ urls = <<>>
    /\ InitIdle

\* all sequences over S of a length up to n
SeqsUpTo(S, n) == UNION {[1..k -> S] : k \in 0..n}

\* the URLs given to the normalizer: a host of the image service, another
\* host, or another host with the name of the service in a query parameter,
\* and any text of path pieces, "=", directive letters and digits after it
NormHeads ==
    {<<"https://", "lh3.", "googleusercontent.com">>,
     <<"https://", "ex.com">>,
     <<"https://", "ex.com", "?u", "=", "googleusercontent.com">>}

NormTailChunks == {"/p", "=", "w", "s", "h", "5"}

NormUrls == {head \o tail : head \in NormHeads, tail \in SeqsUpTo(NormTailChunks, MaxTail)}

\* _get_high_res_image_url alone (lines 548-570), called on a URL and then on
\* what it returned
InitNormalize ==
    /\ InitCall("normalize")
    /\ arg \in NormUrls
    /\ result = <<>>

Normalize ==
    /\ pc = "normalize" /\ Len(result) < 2
    /\ result' = Append(result, get_high_res_image_url(
                                   IF result = <<>> THEN arg ELSE result[Len(result)]))
    /\ UNCHANGED <<mainVars, pc, retval, frame, world, history, results, arg>>

NextNormalize == Normalize

SpecNormalize == InitNormalize /\ [][NextNormalize]_vars

\* the JSON values given to the walk: strings and scalars, and up to a depth
\* sequences of one value and mappings of one key, the key recognized or not;
\* at the top also sequences of two values and mappings of two keys
WalkStrings == {UrlJpg, UrlPngUpper, UrlGif, UrlMid, UrlRelative}

WalkKeys == {"image", "other"}

RECURSIVE JsonValues(_)
JsonValues(depth) ==
    LET leaves == {JStr(x) : x \in WalkStrings} \cup {JScalar}
    IN  IF depth = 0 THEN leaves
        ELSE LET inner == JsonValues(depth - 1)
             IN  leaves
                   \cup {JList(<<x>>) : x \in inner}
                   \cup {JDict({[key |-> k, value |-> x]}) : k \in WalkKeys, x \in inner}

JsonDocs ==
    LET small == JsonValues(MaxDepth - 3)
    IN  JsonValues(MaxDepth)
          \cup {JList(<<x, y>>) : x \in small, y \in small}
          \cup {JDict({[key |-> "photos", value |-> x], [key |-> "other", value |-> y]}) :
                   x \in small, y \in small}

\* _extract_images_from_json_object alone (lines 506-546)
InitWalk ==
    /\ InitCall("walk")
    /\ arg \in JsonDocs
    /\ result = <<>>

Walk ==
    /\ pc = "walk" /\ result = <<>>
    /\ result' = <<extract_images_from_json_object(arg)>>
    /\ UNCHANGED <<mainVars, pc, retval, frame, world, history, results, arg>>

NextWalk == Walk

SpecWalk == InitWalk /\ [][NextWalk]_vars

\* the result pages given to the search-result strategy: up to MaxPad plain
\* thumbnails, then up to two thumbnails with any source, failure and viewer
PlainThumb == Thumb(UrlPairBig, "ok", <<>>, "ok")

SearchThumbs ==
    {Thumb(src, step, viewer, read) :
        src \in {UrlThumbS, UrlMapTile},
        step \in {"ok", "click", "query", "close"},
        viewer \in {<<>>, <<Large(UrlJpg, "ok")>>,
                    <<Large(UrlPngUpper, "ok"), Large(UrlJpg, "error")>>},
        read \in {"ok", "error"}}

SearchPages ==
    {[NoPage EXCEPT !.thumbs = [k \in 1..n |-> PlainThumb] \o last] :
        n \in 0..MaxPad, last \in SeqsUpTo(SearchThumbs, 2)}

\* _extract_images_from_search_results alone (lines 309-374)
InitSearch ==
    /\ InitCall("search")
    /\ arg \in SearchPages
    /\ result = <<>>

Search ==
    /\ pc = "search" /\ result = <<>>
    /\ result' = <<[urls   |-> extract_images_from_search_results(arg),
                    clicks |-> Len(ClickedThumbs(arg))]>>
    /\ UNCHANGED <<mainVars, pc, retval, frame, world, history, results, arg>>

NextSearch == Search

SpecSearch == InitSearch /\ [][NextSearch]_vars

\* the names given to the sanitizer: up to two characters of any kind, a run
\* of letters, and up to two characters of any kind
NameChars == {"a", " ", "\t", "/", ":"}

Names ==
    {first \o [k \in 1..n |-> "a"] \o last :
        first \in SeqsUpTo(NameChars, 2), n \in 0..MaxFill,
        last \in SeqsUpTo(NameChars, 2)}

\* _sanitize_filename alone (lines 262-282)
InitSanitize ==
    /\ InitCall("sanitize")
    /\ arg \in Names
    /\ result = <<>>

Sanitize ==
    /\ pc = "sanitize" /\ result = <<>>
    /\ result' = <<sanitize_filename(arg)>>
    /\ UNCHANGED <<mainVars, pc, retval, frame, world, history, results, arg>>

NextSanitize == Sanitize

SpecSanitize == InitSanitize /\ [][NextSanitize]_vars

\* a run over two distinct entities, in an output directory that is empty
PairEntities == {Wakanda, Atlantis, Atlantic, Lemuria, Lemurya}

InitPair ==
    /\ options \in OptionSets
    /\ countries \in {q \in [1..2 -> PairEntities] : q[1] # q[2]}
    /\ ci = 0 /\ mainpc = "loop" /\ pc = "idle"
    /\ fs = {} /\ dirs = {} /\ fs_before = {}
    /\ image_urls = {} /\ urls = <<>>
    /\ InitIdle /\ NoCall

SpecPair == InitPair /\ [][Next]_vars

(***************************************************************************)
(* Properties                                                              *)
(***************************************************************************)
BatchDone == pc = "download" /\ i = Len(urls)

DirFiles == {p \in fs : p.dir = OutputDir}

RECURSIVE SumSeq(_)
SumSeq(q) == IF q = <<>> THEN 0 ELSE Head(q) + SumSeq(Tail(q))

\* C1: when _download_images has gone through the batch, no file written for a
\* URL that failed a step remains in the directory, and a directory that was
\* empty before the batch holds exactly the returned paths
C1_NoFileOfFailedUrl ==
    BatchDone =>
        /\ \A p \in written : p \in fs => p \in Range(downloaded_images)
        /\ fs_before = {} => DirFiles = Range(downloaded_images)

\* C2: whatever the answers for the URLs before, requests.get is called for
\* the URLs of the batch one by one in their order, each once; a failed URL
\* leaves the next one to be processed; and the returned list has one path for
\* every URL that passed every step
C2_EveryUrlOnceAndCounted ==
    /\ pc = "download"
    /\ requested = SubSeq(urls, 1, i)
    /\ Len(downloaded_images) = passed
    /\ i < Len(urls) => ENABLED NextDownload

\* C2, its case: the first URL of a batch of two failed, the second passed and
\* is the only path returned
C2_Witness ==
    /\ BatchDone /\ Len(urls) = 2 /\ requested = urls
    /\ passed = 1
    /\ downloaded_images = <<ImagePath(OutputDir, 2, ".jpg")>>

\* the sizes a URL declares: a width token =w<W> with the height token that
\* follows it as -h<H> (the form of LargeSize), or with a separate token =h<H>
DeclaredSizes(u) ==
    LET widths  == DirectiveStarts(u, "w")
        wend(k) == DigitRunEnd(u, k + 2)
        W(k)    == IntOf(SubSeq(u, k + 2, wend(k)))
        paired  == {k \in widths :
                      /\ wend(k) + 3 <= Len(u)
                      /\ u[wend(k) + 1] = "-" /\ u[wend(k) + 2] = "h"
                      /\ u[wend(k) + 3] \in Digits}
        H(k)    == IntOf(SubSeq(u, wend(k) + 3, DigitRunEnd(u, wend(k) + 3)))
        heights == DirectiveStarts(u, "h")
        HS(j)   == IntOf(SubSeq(u, j + 2, DigitRunEnd(u, j + 2)))
    IN  {<<W(k), H(k)>> : k \in paired}
          \cup {<<W(k), HS(j)>> : k \in widths, j \in heights}

DeclaresSmall(u) ==
    \E wh \in DeclaredSizes(u) : wh[1] < MinDimension \/ wh[2] < MinDimension

\* C3: the filter puts out no URL whose size directive declares a width or a
\* height below 100
C3_NoSmallDirective ==
    pc = "download" => \A u \in filtered : ~ DeclaresSmall(u)

\* C4, as claimed: with max_images > 0 the list handed to the downloader has
\* exactly min(len(input), max_images) elements, input being the set given to
\* the filter stage; with max_images = 0 nothing is cut
C4_LengthFromInput ==
    pc = "download" =>
        /\ options.max_images > 0 =>
              /\ Len(urls) <= options.max_images
              /\ Len(urls) = Min(Cardinality(image_urls), options.max_images)
        /\ options.max_images = 0 => Range(urls) = filtered

\* C4, amended: with max_images > 0 the list handed to the downloader has
\* exactly min(len(filtered), max_images) elements, filtered being what
\* _filter_image_urls keeps of the input, so never more than max_images; its
\* elements are distinct URLs the filter kept; with max_images = 0 nothing is
\* cut and the list holds every URL the filter kept
C4_LengthFromFiltered ==
    pc = "download" =>
        /\ filtered = filter_image_urls(image_urls)
        /\ Range(urls) \subseteq filtered
        /\ Cardinality(Range(urls)) = Len(urls)
        /\ options.max_images > 0 =>
              /\ Len(urls) <= options.max_images
              /\ Len(urls) = Min(Cardinality(filtered), options.max_images)
        /\ options.max_images = 0 => Range(urls) = filtered

\* C4, its case: the filter dropped a URL and the limit cut the rest
C4_Witness ==
    /\ pc = "download"
    /\ options.max_images > 0
    /\ Cardinality(filtered) > options.max_images
    /\ Cardinality(image_urls) > Cardinality(filtered)
    /\ Len(urls) = options.max_images

\* C5: no failure in the processing of an entity ends the run: main never
\* leaves through sys.exit(1), and when it is done
\* download_images_for_country has returned for every entity of the list
C5_RunNeverAborted ==
    /\ mainpc # "exit"
    /\ mainpc = "done" => Len(returned) = Len(countries)

\* C6: every value download_images_for_country returns is the number of images
\* its downloader downloaded and verified, and the final total is their sum
C6_CountIsDownloaded ==
    /\ \A k \in 1..Len(returned) : returned[k] = verified[k]
    /\ mainpc = "done" => total_images = SumSeq(verified)

\* the archive of the entity, once it is written and closed
Archived == pc \in {"remove", "finish"} /\ ~ options.no_zip

ArchiveMembers == UNION {z.members : z \in {x \in zips : x.name = ZipPath}}

\* C7: once the archive of an entity is written, every image the downloader
\* returned is a member of it, and no returned image is removed from the
\* directory without being a member
C7_ArchiveHoldsEveryImage ==
    /\ Archived => \A p \in Range(downloaded_images) :
                       p \in fs => p \in ArchiveMembers
    /\ pc \in {"remove", "finish", "ret"} =>
          \A p \in Range(downloaded_images) : p \notin fs => p \in ArchiveMembers

\* C8: the archive of an entity has no member other than the images
\* downloaded for it in this run
C8_ArchiveHoldsOnlyImages ==
    Archived => ArchiveMembers \subseteq Range(downloaded_images)

\* C9: an original is removed only in zip-only mode, with archives not
\* suppressed, after the archive was written with every image file of the
\* directory and closed; with no-zip set no archive is written
C9_ArchiveBeforeDelete ==
    [][/\ (\E p \in Range(downloaded_images) : p \in fs /\ p \notin fs') =>
              /\ options.zip_only /\ ~ options.no_zip
              /\ \E z \in zips :
                    /\ z.name = ZipPath /\ ~ z.open
                    /\ ZipMembers(OutputDir, fs) \subseteq z.members
       /\ options.no_zip => zips' = zips]_vars

\* C9, its case: zip-only mode has removed an original that is in the archive
C9_Witness ==
    /\ pc \in {"remove", "finish"} /\ rm >= 1
    /\ downloaded_images[1] \notin fs
    /\ downloaded_images[1] \in ArchiveMembers

\* the raw sources of the loaded page
PageSources ==
    {page.thumbs[k].src : k \in 1..Len(page.thumbs)}
      \cup UNION {{e.viewer[n].src : n \in 1..Len(e.viewer)} : e \in Range(page.thumbs)}
      \cup {x.src : x \in page.imgs} \cup page.markup

\* C10: the downloader gets every URL it gets once: the list has no URL twice,
\* no two URLs of it have the same normalized form, it is the whole filtered
\* union of the four results unless the limit cuts it, and there is at most
\* one file per URL
C10_EveryUrlHandedOnce ==
    pc \in {"download", "zip_open", "zip_write", "remove", "finish"} =>
        /\ image_urls = search_results_images \cup page_content_images
                          \cup jsonld_images \cup embedded_json_images
        /\ \A j, k \in 1..Len(urls) :
              get_high_res_image_url(urls[j]) = get_high_res_image_url(urls[k])
                  => j = k
        /\ Range(urls) \subseteq filtered
        /\ (options.max_images = 0 \/ Cardinality(filtered) <= options.max_images)
              => Range(urls) = filtered
        /\ requested = SubSeq(urls, 1, i)
        /\ Len(downloaded_images) <= i
        /\ Cardinality(Range(downloaded_images)) = Len(downloaded_images)

\* C10, its case: a picture found by all four strategies, and a thumbnail met
\* in two raw forms with one normalized form, each downloaded to one file
C10_Witness ==
    /\ pc = "download" /\ i = Len(urls) /\ Len(urls) = 2
    /\ UrlJpg \in search_results_images \cap jsonld_images \cap embedded_json_images
    /\ {UrlThumbW, UrlThumbS} \subseteq PageSources
    /\ get_high_res_image_url(UrlThumbW)
          \in search_results_images \cap page_content_images
    /\ Range(urls) = {UrlJpg, get_high_res_image_url(UrlThumbW)}
    /\ Len(downloaded_images) = 2

\* the condition of line 562
NormalizerMatches(u) ==
    /\ Contains(u, <<"googleusercontent.com">>)
    /\ \/ Contains(u, <<"=", "w">>)
       \/ Contains(u, <<"=", "s">>)
       \/ Contains(u, <<"=", "h">>)

\* C11: the normalizer is idempotent: called on what it returned, it returns
\* the same URL, whether the URL matches its pattern or not and wherever its
\* "=" are
C11_NormalizerIdempotent ==
    Len(result) = 2 => result[2] = result[1]

\* C11, its case: a URL of the image service with two "=", rewritten by the
\* first call and given to the second
C11_Witness ==
    /\ pc = "normalize" /\ Len(result) = 2
    /\ NormalizerMatches(arg)
    /\ Cardinality({k \in 1..Len(arg) : arg[k] = "="}) >= 2
    /\ result[1] # arg

\* a size directive: "=", a letter w, s or h and digits, and any more
\* dimensions, each "-", a letter and digits
RECURSIVE IsDimensions(_)
IsDimensions(t) ==
    /\ Len(t) >= 2
    /\ t[1] \in {"w", "s", "h"} /\ t[2] \in Digits
    /\ LET e == DigitRunEnd(t, 2)
       IN  \/ e = Len(t)
           \/ /\ t[e + 1] = "-"
              /\ IsDimensions(SubSeq(t, e + 2, Len(t)))

IsSizeDirective(s) == s # <<>> /\ s[1] = "=" /\ IsDimensions(Tail(s))

\* where the size directive that ends u starts; 0: u does not end with one
TrailingDirective(u) ==
    LET starts == {k \in 1..Len(u) : IsSizeDirective(SubSeq(u, k, Len(u)))}
    IN  IF starts = {} THEN 0 ELSE CHOOSE k \in starts : TRUE

\* C12: of a URL of the image service that ends with a size directive, the
\* normalizer returns the text before that directive, every character of it
\* and so every earlier "=", followed by =w2048-h2048; a URL that does not
\* match is returned as it is
C12_NormalizerKeepsBase ==
    result # <<>> =>
        /\ (Contains(arg, <<"googleusercontent.com">>) /\ TrailingDirective(arg) > 0)
              => result[1] = SubSeq(arg, 1, TrailingDirective(arg) - 1) \o LargeSize
        /\ ~ NormalizerMatches(arg) => result[1] = arg

\* the mappings of a JSON value, at any depth, reached through any key and
\* through sequences
RECURSIVE Mappings(_)
Mappings(j) ==
    IF j.t = "dict"
    THEN {j} \cup UNION {Mappings(kv.value) : kv \in j.v}
    ELSE IF j.t = "list" THEN UNION {Mappings(j.v[k]) : k \in 1..Len(j.v)}
    ELSE {}

\* the strings that are the value of a recognized key of the mapping d, or an
\* element of a sequence that is the value of such a key
KeyedStrings(d) ==
    LET known == {kv.value : kv \in {x \in d.v : x.key \in RecognizedKeys}}
    IN  {x.v : x \in {y \in known : y.t = "str"}}
          \cup UNION {{x.v[k].v : k \in {n \in 1..Len(x.v) : x.v[n].t = "str"}} :
                         x \in {y \in known : y.t = "list"}}

RecognizedStrings(j) == UNION {KeyedStrings(d) : d \in Mappings(j)}

\* begins with an HTTP(S) scheme and ends in a supported image extension
IsImageUrl(x) ==
    /\ StartsWithHttp(x)
    /\ \E ext \in ImageExtensions : EndsWith(Lower(x), <<ext>>)

\* C13: the walk finds every string under a recognized key, or in a sequence
\* under one, of a mapping at any depth, that begins with an HTTP(S) scheme
\* and ends in .jpg, .jpeg, .png, .webp or .gif: its normalized form is in the
\* result
C13_WalkComplete ==
    result # <<>> =>
        \A x \in RecognizedStrings(arg) :
            IsImageUrl(x) => get_high_res_image_url(x) \in result[1]

\* C18: every URL of the result of the walk is the normalized form of a
\* string under a recognized key, or in a sequence under one, that begins
\* with an HTTP(S) scheme and ends in a supported image extension
C18_WalkSound ==
    result # <<>> =>
        \A u \in result[1] :
            \E x \in RecognizedStrings(arg) :
                IsImageUrl(x) /\ u = get_high_res_image_url(x)

\* the sources of the viewer of a clicked thumbnail that were read before a
\* step of its iteration failed
ReadInViewer(e) ==
    IF e.step \in {"click", "query"} THEN {}
    ELSE {e.viewer[k].src :
             k \in {n \in 1..Len(e.viewer) :
                       \A b \in 1..n : e.viewer[b].read = "ok"}}

\* C17, the part on clicks and on the elements after a failing one: at most
\* 10 elements are clicked, and whatever fails on the elements before, the
\* sources read in the viewer of each of the first 10 are in the result
C17_ClicksAndViewers ==
    /\ result[1].clicks <= MaxClicks
    /\ \A k \in 1..Len(arg.thumbs) :
          k <= MaxClicks =>
              \A src \in ReadInViewer(arg.thumbs[k]) :
                  SearchResultKeeps(src) =>
                      get_high_res_image_url(src) \in result[1].urls

\* C17, as claimed: whatever click, query, close or attribute read fails on
\* an element, at most 10 elements are clicked, the elements after a failing
\* one are processed, and the own source of every thumbnail that passes the
\* denylist is in the result in normalized form
C17_EveryOwnSource ==
    result # <<>> =>
        /\ C17_ClicksAndViewers
        /\ \A k \in 1..Len(arg.thumbs) :
              SearchResultKeeps(arg.thumbs[k].src) =>
                  get_high_res_image_url(arg.thumbs[k].src) \in result[1].urls

\* C17, amended: the same for the own source of every thumbnail whose src
\* attribute is read without an error in the second loop, whether or not its
\* click succeeded; the source of a thumbnail whose read raises is not known
\* and the loop goes on with the next one
C17_EveryReadableOwnSource ==
    result # <<>> =>
        /\ C17_ClicksAndViewers
        /\ \A k \in 1..Len(arg.thumbs) :
              (arg.thumbs[k].read = "ok" /\ SearchResultKeeps(arg.thumbs[k].src)) =>
                  get_high_res_image_url(arg.thumbs[k].src) \in result[1].urls

\* C17, its case: eleven thumbnails, the click on the tenth fails and the
\* read of none; ten are clicked, and the sources of the tenth and of the
\* eleventh are in the result
C17_Witness ==
    /\ pc = "search" /\ result # <<>>
    /\ Len(arg.thumbs) = MaxClicks + 1
    /\ arg.thumbs[MaxClicks].step = "click"
    /\ arg.thumbs[MaxClicks].src = UrlThumbS
    /\ arg.thumbs[MaxClicks + 1].src = UrlThumbS
    /\ \A k \in 1..Len(arg.thumbs) : arg.thumbs[k].read = "ok"
    /\ result[1].clicks = MaxClicks
    /\ get_high_res_image_url(UrlThumbS) \in result[1].urls

\* C15: the sanitized name has none of the characters \ / * ? : " < > |, no
\* two whitespace characters in a row, at most 50 characters (a name that is
\* longer once its whitespace is collapsed ends with "..." after its first 47
\* characters), and is never empty or whitespace only: an empty or
\* whitespace-only name gives unnamed_country
C15_SanitizedName ==
    result # <<>> =>
        LET r == result[1]
        IN  /\ \A k \in 1..Len(r) : r[k] \notin IllegalChars
            /\ \A k \in 1..(Len(r) - 1) :
                  ~ (r[k] \in Whitespace /\ r[k + 1] \in Whitespace)
            /\ Len(r) <= MaxNameLen
            /\ r # <<>> /\ ~ IsSpace(r)
            /\ (\A k \in 1..Len(arg) : arg[k] \in Whitespace) => r = Placeholder
            /\ (Len(arg) > MaxNameLen /\ \A k \in 1..Len(arg) : arg[k] \notin Whitespace)
                  => /\ Len(r) = MaxNameLen
                     /\ SubSeq(r, CutNameLen + 1, MaxNameLen) = <<".", ".", ".">>
                     /\ \A k \in 1..CutNameLen :
                           r[k] = IF arg[k] \in IllegalChars THEN "_" ELSE arg[k]

\* C15, its case: a name of more than 50 characters without whitespace and
\* with a character that is rewritten
C15_Witness ==
    /\ pc = "sanitize" /\ result # <<>>
    /\ Len(arg) > MaxNameLen
    /\ \A k \in 1..Len(arg) : arg[k] \notin Whitespace
    /\ arg[1] \in IllegalChars
    /\ Len(result[1]) = MaxNameLen
    /\ result[1][1] = "_"

\* the entities main has taken before the current one
Earlier == {countries[j] : j \in 1..(ci - 1)}

\* C19: an entity shares no working directory, image file or archive with
\* another entity of the run taken before it: while it is processed, its
\* directory and its archive are not those of an earlier entity, and no file
\* that was there when it was started is written again, removed or put into
\* its archive
C19_EntitiesApart ==
    (ci >= 2 /\ pc # "idle") =>
        /\ \A e \in Earlier :
              /\ DirName(e.id, e.name) # OutputDir
              /\ ZipName(e.id, e.name) # ZipPath
        /\ written \cap fs_before = {}
        /\ fs_before \subseteq fs
        /\ ArchiveMembers \cap fs_before = {}

\* C14: no error leaves a core step: each of the four strategies, the filter,
\* the downloader and the packager hands control to the statement after its
\* call, so a strategy is followed by the next one (the filter after the
\* fourth), the filter by the downloader, the downloader by line 221 and the
\* packager by line 224, never by the handler of line 235
C14_NoErrorLeavesAStep ==
    [][/\ pc = "extract1" => pc' = "extract2"
       /\ pc = "extract2" => pc' = "extract3"
       /\ pc = "extract3" => pc' = "extract4"
       /\ pc = "extract4" => pc' = "filter"
       /\ pc = "filter" => pc' = "download"
       /\ pc = "download" => pc' \in {"download", "zip_open", "finish"}
       /\ pc = "zip_open" => pc' = "zip_write"
       /\ pc = "zip_write" => pc' \in {"remove", "finish"}]_vars

\* the phases of an entity: NAVIGATE 1, EXTRACT 2, FILTER 3, DOWNLOAD 4,
\* PACKAGE 5, DONE 6; 0 between two entities
PhaseOf(place) ==
    CASE place = "navigate" -> 1
      [] place \in {"extract1", "extract2", "extract3", "extract4"} -> 2
      [] place = "filter" -> 3
      [] place = "download" -> 4
      [] place \in {"zip_open", "zip_write", "remove"} -> 5
      [] place \in {"finish", "ret"} -> 6
      [] OTHER -> 0

\* a step stays in its phase, goes to the next one or to DONE; a failure of
\* NAVIGATE goes to DONE with no candidate and no image
PhaseStep ==
    /\ PhaseOf(pc) > 0 /\ PhaseOf(pc') > 0 =>
          PhaseOf(pc') \in {PhaseOf(pc), PhaseOf(pc) + 1, PhaseOf("ret")}
    /\ PhaseOf(pc) = 0 => PhaseOf(pc') \in {0, PhaseOf("navigate")}
    /\ PhaseOf(pc') = 0 => PhaseOf(pc) \in {0, PhaseOf("ret")}
    /\ (pc = "navigate" /\ pc' = "ret") =>
          retval' = 0 /\ image_urls' = {} /\ downloaded_images' = <<>>

\* no download before the four strategies have returned and the filter and
\* the cap are applied; no packaging before the last download, and none with
\* archives suppressed
PhaseState ==
    /\ (PhaseOf(pc) > 0 /\ (i > 0 \/ requested # <<>> \/ written # {}))
          => PhaseOf(pc) >= PhaseOf("download")
    /\ pc = "download" =>
          /\ search_results_images = extract_images_from_search_results(page)
          /\ page_content_images = extract_images_from_page_content(page)
          /\ jsonld_images = extract_images_from_jsonld(page)
          /\ embedded_json_images = extract_images_from_embedded_json(page)
          /\ image_urls = search_results_images \cup page_content_images
                            \cup jsonld_images \cup embedded_json_images
          /\ filtered = filter_image_urls(image_urls)
          /\ Range(urls) \subseteq filtered
          /\ options.max_images > 0 => Len(urls) <= options.max_images
    /\ PhaseOf(pc) = PhaseOf("zip_open") => i = Len(urls) /\ ~ options.no_zip
    /\ options.no_zip => zips = {}
    /\ pc = "ret" => ENABLED ReturnToMain

====
